---- MODULE Spec2Model ----
(***************************************************************************)
(* Model of the query builders of queries/mempool_visibility.py and        *)
(* queries/network_overview.py.                                            *)
(*                                                                         *)
(* A builder formats a SQL text, hands it to client.query_df and returns   *)
(* what the client produced.  The SQL text is modelled by its meaning: a   *)
(* filter is the predicate it denotes over rows, an aggregate is computed  *)
(* over the rows of the tables as ClickHouse computes it (three-valued     *)
(* logic, countIf counting the rows whose condition is true).              *)
(*                                                                         *)
(* Timestamps are records [d, ms]: d counts days since 2020-01-01 and ms   *)
(* the milliseconds into that day, so the literal '2020-01-01' is          *)
(* [d |-> 0, ms |-> 0].  quantilesIf is not modelled: no property below    *)
(* depends on the percentile columns.                                      *)
(***************************************************************************)
EXTENDS Integers, Sequences, FiniteSets, TLC

VARIABLES
    probe,          \* one (value, condition, prefix) input of hist_columns
    hist,           \* what hist_columns produced for probe
    canonical,      \* table canonical_beacon_block_execution_transaction
    mempool,        \* table mempool_transaction
    join_use_nulls, \* the client's ClickHouse setting of that name
    target_date,    \* the target_date argument of the query under study
    df,             \* the result the client returned for it
    filter_probe,   \* one (module, target date, row) input of a date filter
    filter_result,  \* whether the row passed the filter
    libp2p_connected_local, \* table libp2p_connected_local
    calls,          \* the invocations of the builders, each with its progress
    fs              \* the file system: directories and files

bucketvars == <<probe, hist>>
dbvars == <<canonical, mempool, join_use_nulls, target_date, df>>
filtervars == <<filter_probe, filter_result>>
callvars == <<libp2p_connected_local, calls, fs>>
vars == <<probe, hist, canonical, mempool, join_use_nulls, target_date, df,
          filter_probe, filter_result, libp2p_connected_local, calls, fs>>

----------------------------------------------------------------------------
(* Bounds of the model *)

\* probe values are taken within Spread of every threshold of bounds_ms
Spread == 2
\* rows of the canonical table, rows of the mempool table
MaxTxs == 2
MaxEvents == 2
\* concurrent invocations of the builders
NumCalls == 2

----------------------------------------------------------------------------
(* Time *)

DayMs == 86400000
HourMs == 3600000

Ts(d, ms) == [d |-> d, ms |-> ms]

TsLT(a, b) == a.d < b.d \/ (a.d = b.d /\ a.ms < b.ms)
TsLE(a, b) == a.d < b.d \/ (a.d = b.d /\ a.ms <= b.ms)

\* '2020-01-01' compared with a DateTime column
Sentinel == Ts(0, 0)

\* the value a non-nullable DateTime column takes on the unmatched side of a
\* join when join_use_nulls = 0: 1970-01-01 00:00:00
DefaultDateTime == Ts(0 - 18262, 0)

\* '{target_date}' read as a DateTime and '{target_date}'::date + INTERVAL n DAY
DateTimeOf(td) == Ts(td, 0)
DatePlusDays(td, n) == Ts(td + n, 0)
\* '{target_date}'::date - INTERVAL 1 HOUR
DateMinusHour(td) == Ts(td - 1, DayMs - HourMs)

\* dateDiff('millisecond', a, b): b - a in milliseconds.  ClickHouse returns
\* an Int64; the model's integers are narrower, so a difference of more than
\* 20 days is reported as 2000000000 ms (of the right sign), which compares
\* with every threshold of bounds_ms as the exact difference does.
dateDiff(a, b) ==
    LET dd == b.d - a.d
    IN  IF dd > 20 THEN 2000000000
        ELSE IF dd < 0 - 20 THEN 0 - 2000000000
        ELSE dd * DayMs + (b.ms - a.ms)

----------------------------------------------------------------------------
(* SQL values: a nullable value is [isNull, v]; a condition is one of      *)
(* "true", "false", "null".                                                *)

Null == [isNull |-> TRUE, v |-> 0]
NotNull(x) == [isNull |-> FALSE, v |-> x]

Bool3(b) == IF b THEN "true" ELSE "false"

And3(a, b) ==
    IF a = "false" \/ b = "false" THEN "false"
    ELSE IF a = "null" \/ b = "null" THEN "null"
    ELSE "true"

\* x < k and x >= k for a nullable integer x and a literal k
Lt3(x, k) == IF x.isNull THEN "null" ELSE Bool3(x.v < k)
Ge3(x, k) == IF x.isNull THEN "null" ELSE Bool3(x.v >= k)

----------------------------------------------------------------------------
(* fetch_mempool_availability: the histogram columns *)

bounds_ms == <<500, 1000, 2000, 4000, 8000, 16000, 32000, 64000, 128000,
               256000, 512000, 1024000, 2048000, 3600000>>

\* A column is the countIf expression hist_columns emits: the lower and upper
\* comparison of its text (absent ones marked by hasLo/hasHi), the condition
\* fragment, and its name prefix_index.
Column(hasLo, lo, hasHi, hi, value_expr, condition, prefix, index) ==
    [hasLo |-> hasLo, lo |-> lo, hasHi |-> hasHi, hi |-> hi,
     value_expr |-> value_expr, condition |-> condition,
     name |-> <<prefix, index>>]

\* cols.append(f"countIf({value_expr} < {bounds_ms[0]} AND {condition}) AS {prefix}_0")
FirstBucket(value_expr, condition, prefix) ==
    Column(FALSE, 0, TRUE, bounds_ms[1], value_expr, condition, prefix, 0)

\* a faulty range bucket: its lower comparison is > instead of >=
RangeBucketOffByOne(value_expr, condition, prefix, j) ==
    Column(TRUE, bounds_ms[j] + 1, TRUE, bounds_ms[j + 1],
           value_expr, condition, prefix, j)

\* the column appended by the loop body for the Python index i = j - 1
RangeBucket(value_expr, condition, prefix, j) ==
    Column(TRUE, bounds_ms[j], TRUE, bounds_ms[j + 1],
           value_expr, condition, prefix, j)

\* cols.append(f"countIf({value_expr} >= {bounds_ms[-1]} AND {condition}) AS {prefix}_{len(bounds_ms)}")
LastBucket(value_expr, condition, prefix) ==
    Column(TRUE, bounds_ms[Len(bounds_ms)], FALSE, 0,
           value_expr, condition, prefix, Len(bounds_ms))

hist_columns(value_expr, condition, prefix) ==
    <<FirstBucket(value_expr, condition, prefix)>>
    \o [j \in 1..(Len(bounds_ms) - 1) |->
            RangeBucket(value_expr, condition, prefix, j)]
    \o <<LastBucket(value_expr, condition, prefix)>>

\* the value part of a column's text on a value v: "v >= lo AND v < hi"
BucketPred(col, v) ==
    And3(IF col.hasLo THEN Ge3(v, col.lo) ELSE "true",
         IF col.hasHi THEN Lt3(v, col.hi) ELSE "true")

\* a faulty countIf argument: the condition fragment is left out
CountIfArgDropsCondition(col, v, cond) == BucketPred(col, v)

\* the argument of countIf, given the value and the value of the condition
\* fragment on a row: "<value part> AND <condition>"
CountIfArg(col, v, cond) == And3(BucketPred(col, v), cond)

\* Histogram bucket labels for visualization
AGE_HIST_LABELS == <<"<0.5s", "0.5-1s", "1-2s", "2-4s", "4-8s", "8-16s",
                     "16-32s", "32s-1m", "1-2m", "2-4m", "4-8m", "8-17m",
                     "17-34m", "34-60m", ">=1h">>

\* The histogram the docstring of fetch_mempool_availability describes:
\* bucket index |-> [lo, hi) in milliseconds, the last one unbounded above.
DocBuckets ==
    [k \in 0..11 |->
        IF k = 0 THEN [hasLo |-> FALSE, lo |-> 0, hasHi |-> TRUE, hi |-> 500]
        ELSE IF k = 11
             THEN [hasLo |-> TRUE, lo |-> 512000, hasHi |-> FALSE, hi |-> 0]
             ELSE [hasLo |-> TRUE, lo |-> 250 * (2 ^ k),
                   hasHi |-> TRUE, hi |-> 500 * (2 ^ k)]]

----------------------------------------------------------------------------
(* hist_columns applied to one row's value and condition *)

Range(s) == {s[i] : i \in DOMAIN s}

Thresholds == Range(bounds_ms) \cup {0}

ProbeValues ==
    {NotNull(b + k) : b \in Thresholds, k \in (0 - Spread)..Spread}
    \cup {NotNull(750), NotNull(2000000), Null}

Prefixes == {"age_hist", "delay_hist"}

----------------------------------------------------------------------------
(* Date filters *)

\* a faulty filter: its date is a value shared between invocations instead of
\* the argument
mv_get_date_filter_shared_date(td, column) ==
    [column |-> column, lo |-> DateTimeOf(target_date),
     hi |-> DatePlusDays(target_date, 1), hiInclusive |-> FALSE]

\* mempool_visibility._get_date_filter:
\*   {column} >= '{target_date}' AND {column} < '{target_date}'::date + INTERVAL 1 DAY
mv_get_date_filter(td, column) ==
    [column |-> column, lo |-> DateTimeOf(td), hi |-> DatePlusDays(td, 1),
     hiInclusive |-> FALSE]

\* network_overview._get_date_filter:
\*   {column} BETWEEN '{target_date}' AND '{target_date}'::date + INTERVAL 1 DAY
no_get_date_filter(td, column) ==
    [column |-> column, lo |-> DateTimeOf(td), hi |-> DatePlusDays(td, 1),
     hiInclusive |-> TRUE]

\* whether a row passes a date filter
Satisfies(filter, row) ==
    LET t == row[filter.column]
    IN  /\ TsLE(filter.lo, t)
        /\ IF filter.hiInclusive THEN TsLE(t, filter.hi) ELSE TsLT(t, filter.hi)

----------------------------------------------------------------------------
(* fetch_mempool_availability: the query *)

NullTs == [isNull |-> TRUE, v |-> Ts(0, 0)]

IsNotNull3(x) == Bool3(~x.isNull)
TsGt3(x, t) == IF x.isNull THEN "null" ELSE Bool3(TsLT(t, x.v))
TsLt3(x, t) == IF x.isNull THEN "null" ELSE Bool3(TsLT(x.v, t))
TsGe3(x, t) == IF x.isNull THEN "null" ELSE Bool3(TsLE(t, x.v))

MinTs(S) == CHOOSE t \in S : \A u \in S : TsLE(t, u)

\* WITH first_seen AS (SELECT hash, min(event_date_time) ... GROUP BY hash):
\* hash |-> first_event_time
first_seen(network, td) ==
    LET rows == {e \in mempool :
                    /\ e.meta_network_name = network
                    /\ TsLE(DatePlusDays(td, 0 - 1), e.event_date_time)
                    /\ TsLT(e.event_date_time, DatePlusDays(td, 2))}
    IN  [h \in {e.hash : e \in rows} |->
            MinTs({e.event_date_time : e \in {x \in rows : x.hash = h}})]

\* canonical row c GLOBAL LEFT JOIN first_seen m ON c.hash = m.hash
LeftJoin(c, seen) ==
    [c |-> c,
     m |-> [first_event_time |->
              IF c.hash \in DOMAIN seen THEN NotNull(seen[c.hash])
              ELSE IF join_use_nulls THEN NullTs
              ELSE NotNull(DefaultDateTime)]]

\* a faulty seen_before: the comparison with '2020-01-01' is left out
seen_beforeNoSentinel(j) ==
    And3(IsNotNull3(j.m.first_event_time),
         TsLt3(j.m.first_event_time, j.c.slot_start_date_time))

seen_before(j) ==
    And3(And3(IsNotNull3(j.m.first_event_time),
              TsGt3(j.m.first_event_time, Sentinel)),
         TsLt3(j.m.first_event_time, j.c.slot_start_date_time))

seen_after(j) ==
    And3(And3(IsNotNull3(j.m.first_event_time),
              TsGt3(j.m.first_event_time, Sentinel)),
         TsGe3(j.m.first_event_time, j.c.slot_start_date_time))

\* dateDiff('millisecond', m.first_event_time, c.slot_start_date_time)
age_ms(j) ==
    IF j.m.first_event_time.isNull THEN Null
    ELSE NotNull(dateDiff(j.m.first_event_time.v, j.c.slot_start_date_time))

\* dateDiff('millisecond', c.slot_start_date_time, m.first_event_time)
delay_ms(j) ==
    IF j.m.first_event_time.isNull THEN Null
    ELSE NotNull(dateDiff(j.c.slot_start_date_time, j.m.first_event_time.v))

\* the value of an interpolated fragment on a joined row
EvalValue(value_expr, j) ==
    IF value_expr = "age_ms" THEN age_ms(j) ELSE delay_ms(j)
EvalCondition(condition, j) ==
    IF condition = "seen_before" THEN seen_before(j) ELSE seen_after(j)

\* the value of one histogram column's countIf argument on a joined row
ColumnOnRow(col, j) ==
    CountIfArg(col, EvalValue(col.value_expr, j),
               EvalCondition(col.condition, j))

\* WHERE c.meta_network_name = '{network}' AND {date_filter}: the indices of
\* the canonical rows kept
AvailabilityKept(td, network) ==
    {i \in DOMAIN canonical :
        /\ canonical[i].meta_network_name = network
        /\ Satisfies(mv_get_date_filter(td, "slot_start_date_time"),
                     canonical[i])}

\* GROUP BY c.slot, c.slot_start_date_time, c.type
GroupKey(c) == <<c.slot, c.slot_start_date_time, c.type>>

AvailabilityColumns ==
    hist_columns("age_ms", "seen_before", "age_hist")
    \o hist_columns("delay_ms", "seen_after", "delay_hist")

\* the rows client.query_df returns for the query of
\* fetch_mempool_availability: group key |-> aggregates; hist holds the
\* histogram columns in the order of the select list, each with its name
AvailabilityResult(td, network) ==
    LET seen == first_seen(network, td)
        kept == AvailabilityKept(td, network)
        cols == AvailabilityColumns
    IN  [k \in {GroupKey(canonical[i]) : i \in kept} |->
            LET group == {i \in kept : GroupKey(canonical[i]) = k}
                \* the joined rows of the group, each with its row number
                joined == {<<i, LeftJoin(canonical[i], seen)>> : i \in group}
            IN  [total_txs |-> Cardinality(joined),
                 seen_before_slot |->
                    Cardinality({j \in joined : seen_before(j[2]) = "true"}),
                 seen_after_slot |->
                    Cardinality({j \in joined : seen_after(j[2]) = "true"}),
                 hist |-> [x \in DOMAIN cols |->
                            [name |-> cols[x].name,
                             count |-> Cardinality({j \in joined :
                                         ColumnOnRow(cols[x], j[2]) = "true"})]]]]

----------------------------------------------------------------------------
(* fetch_sentry_coverage: the query *)

\* WITH canonical_hashes AS (SELECT DISTINCT hash ... WHERE network AND date)
canonical_hashes(td, network) ==
    {canonical[i].hash : i \in
        {n \in DOMAIN canonical :
            /\ canonical[n].meta_network_name = network
            /\ Satisfies(mv_get_date_filter(td, "slot_start_date_time"),
                         canonical[n])}}

\* a faulty WHERE clause: the hash GLOBAL IN (...) conjunct is left out
SentryWhereAnyHash(e, td, network, hashes) ==
    /\ e.meta_network_name = network
    /\ TsLE(DateMinusHour(td), e.event_date_time)
    /\ TsLT(e.event_date_time, DatePlusDays(td, 1))

\* the WHERE clause of the outer SELECT on a mempool row
SentryWhere(e, td, network, hashes) ==
    /\ e.meta_network_name = network
    /\ TsLE(DateMinusHour(td), e.event_date_time)
    /\ TsLT(e.event_date_time, DatePlusDays(td, 1))
    /\ e.hash \in hashes

\* round(n * 100.0 / total, 2), in hundredths of a percent; a tie rounds to
\* the even neighbour, as ClickHouse rounds a Float64, and a positive count
\* divided by 0 is the Float64 inf
CoveragePct(n, total) ==
    IF total = 0 THEN "inf"
    ELSE LET q == (n * 10000) \div total
             r == (n * 10000) % total
         IN  IF 2 * r > total \/ (2 * r = total /\ q % 2 = 1)
             THEN q + 1 ELSE q

\* the rows client.query_df returns for the query of fetch_sentry_coverage:
\* sentry |-> row.  denominator is the value of the scalar subquery
\* (SELECT total FROM total_canonical) the row's coverage_pct was divided by.
SentryCoverageResult(td, network) ==
    LET hashes == canonical_hashes(td, network)
        total == Cardinality(hashes)
        rows == {e \in mempool : SentryWhere(e, td, network, hashes)}
    IN  [s \in {e.meta_client_name : e \in rows} |->
            LET n == Cardinality({e.hash :
                                    e \in {x \in rows : x.meta_client_name = s}})
            IN  [sentry |-> s, txs_seen |-> n,
                 coverage_pct |-> CoveragePct(n, total),
                 denominator |-> total]]

----------------------------------------------------------------------------
(* States with nothing to do, for the variables a specification leaves alone *)

BucketIdle ==
    /\ probe = [v |-> Null, cond |-> "false", prefix |-> "age_hist"]
    /\ hist = [applied |-> FALSE, names |-> <<>>, hits |-> {}]

DbIdle ==
    /\ canonical = <<>>
    /\ mempool = {}
    /\ join_use_nulls = FALSE
    /\ target_date = 0
    /\ df = [fetched |-> FALSE, rows |-> <<>>]

FilterIdle ==
    /\ filter_probe = [module |-> "mempool_visibility", target_date |-> 0,
                       t |-> Ts(0, 0)]
    /\ filter_result = [applied |-> FALSE, passes |-> FALSE,
                        passes_next |-> FALSE]

CallsIdle ==
    /\ libp2p_connected_local = {}
    /\ calls = <<>>
    /\ fs = [dirs |-> {}, files |-> <<>>]

----------------------------------------------------------------------------
(* SpecBuckets: hist_columns applied to one row's value and condition *)

\* The condition fragments start with IS NOT NULL, so they are false on a
\* row whose first_event_time (and with it the value) is NULL.
BucketInit ==
    /\ probe \in {p \in [v : ProbeValues, cond : {"true", "false"},
                         prefix : Prefixes] :
                    p.v.isNull => p.cond = "false"}
    /\ hist = [applied |-> FALSE, names |-> <<>>, hits |-> {}]
    /\ DbIdle /\ FilterIdle /\ CallsIdle

ApplyHistColumns ==
    /\ ~hist.applied
    /\ LET cols == hist_columns("value", "condition", probe.prefix)
       IN  hist' = [applied |-> TRUE,
                    names |-> [i \in DOMAIN cols |-> cols[i].name],
                    hits |-> {cols[i].name : i \in
                               {n \in DOMAIN cols :
                                  CountIfArg(cols[n], probe.v, probe.cond)
                                     = "true"}}]
    /\ UNCHANGED <<probe, dbvars, filtervars, callvars>>

SpecBuckets == BucketInit /\ [][ApplyHistColumns]_vars

----------------------------------------------------------------------------
(* The tables *)

Hashes == {"0xa", "0xb"}
Network == "mainnet"
\* target dates: 2020-01-02, whose first_seen window starts at the sentinel
\* 2020-01-01 00:00, and a date years later
TargetDates == {1, 1500}

\* slot |-> slot_start_date_time, for slots around the target date: two in
\* its first minute and the first of the next day
SlotStart(td) ==
    [s \in 1..3 |-> IF s = 3 THEN Ts(td + 1, 0) ELSE Ts(td, 12000 * s)]

\* the canonical rows a table is filled from, in the order (slot, hash);
\* slots is the sequence of their slots
CanonicalRows(td, slots) ==
    [x \in 1..(2 * Len(slots)) |->
        LET s == slots[(x + 1) \div 2]
        IN  [hash |-> IF x % 2 = 1 THEN "0xa" ELSE "0xb", slot |-> s,
             slot_start_date_time |-> SlotStart(td)[s],
             type |-> 2, meta_network_name |-> Network]]

\* the tables of at most n rows drawn from the sequence rows: a table is a
\* bag of rows, given here with its rows in the order of rows
Tables(rows, n) ==
    UNION {{[i \in 1..k |-> rows[f[i]]] :
              f \in {g \in [1..k -> DOMAIN rows] :
                       \A i \in 1..(k - 1) : g[i] <= g[i + 1]}} :
           k \in 0..n}

MempoolRows(times, sentries) ==
    {[hash |-> h, event_date_time |-> t, meta_client_name |-> s,
      meta_network_name |-> Network] :
        h \in Hashes, t \in times, s \in sentries}

RECURSIVE SubsetsUpTo(_, _)
SubsetsUpTo(S, n) ==
    IF n = 0 THEN {{}}
    ELSE LET smaller == SubsetsUpTo(S, n - 1)
         IN  smaller \cup {T \cup {x} : T \in smaller, x \in S}

----------------------------------------------------------------------------
(* SpecAvailability: fetch_mempool_availability on every small database *)

\* event times around target date td: the first instant of first_seen's
\* window (the sentinel itself when td = 1), 750 ms before slot 1, the start
\* of slot 1, 500 ms after the start of slot 2, the first instant after the
\* window
AvailabilityTimes(td) ==
    {Ts(td - 1, 0), Ts(td, 11250), Ts(td, 12000), Ts(td, 24500),
     Ts(td + 2, 0)}

AvailabilityInit ==
    /\ target_date = 1
    /\ join_use_nulls \in BOOLEAN
    /\ canonical \in Tables(CanonicalRows(target_date, <<1, 2, 3>>), MaxTxs)
    /\ mempool \in SubsetsUpTo(
            MempoolRows(AvailabilityTimes(target_date), {"sentry-1"}),
            MaxEvents)
    /\ df = [fetched |-> FALSE, rows |-> <<>>]
    /\ BucketIdle /\ FilterIdle /\ CallsIdle

FetchMempoolAvailability ==
    /\ ~df.fetched
    /\ df' = [fetched |-> TRUE,
              rows |-> AvailabilityResult(target_date, Network)]
    /\ UNCHANGED <<canonical, mempool, join_use_nulls, target_date,
                   bucketvars, filtervars, callvars>>

SpecAvailability == AvailabilityInit /\ [][FetchMempoolAvailability]_vars

----------------------------------------------------------------------------
(* SpecSentry: fetch_sentry_coverage on every small database *)

\* event times around target date td: 1 ms before the window, the window's
\* first instant (1 hour before the day), within the day
SentryTimes(td) ==
    {Ts(td - 1, DayMs - HourMs - 1), Ts(td - 1, DayMs - HourMs),
     Ts(td, 12000)}

SentryInit ==
    /\ target_date \in TargetDates
    /\ join_use_nulls = FALSE
    /\ canonical \in Tables(CanonicalRows(target_date, <<1, 3>>), MaxTxs)
    /\ mempool \in SubsetsUpTo(
            MempoolRows(SentryTimes(target_date), {"sentry-1", "sentry-2"}),
            MaxEvents)
    /\ df = [fetched |-> FALSE, rows |-> <<>>]
    /\ BucketIdle /\ FilterIdle /\ CallsIdle

FetchSentryCoverage ==
    /\ ~df.fetched
    /\ df' = [fetched |-> TRUE,
              rows |-> SentryCoverageResult(target_date, Network)]
    /\ UNCHANGED <<canonical, mempool, join_use_nulls, target_date,
                   bucketvars, filtervars, callvars>>

SpecSentry == SentryInit /\ [][FetchSentryCoverage]_vars

----------------------------------------------------------------------------
(* SpecDate: the date filter of each module applied to one row *)

\* timestamps within Spread ms of the midnights around target date td
FilterTimes(td) ==
    {Ts(d, ms) : d \in (td - 1)..(td + 2),
                 ms \in (0..Spread) \cup ((DayMs - Spread)..(DayMs - 1))}

DateInit ==
    /\ filter_probe \in
         UNION {[module : {"mempool_visibility", "network_overview"},
                 target_date : {td}, t : FilterTimes(td)] : td \in TargetDates}
    /\ filter_result = [applied |-> FALSE, passes |-> FALSE,
                        passes_next |-> FALSE]
    /\ BucketIdle /\ DbIdle /\ CallsIdle

\* the WHERE clause of a query of mempool_visibility on a row stamped t, for
\* the target date and for the date after it
ApplyMempoolDateFilter ==
    /\ ~filter_result.applied
    /\ filter_probe.module = "mempool_visibility"
    /\ LET row == [slot_start_date_time |-> filter_probe.t]
           td == filter_probe.target_date
       IN  filter_result' =
             [applied |-> TRUE,
              passes |-> Satisfies(
                  mv_get_date_filter(td, "slot_start_date_time"), row),
              passes_next |-> Satisfies(
                  mv_get_date_filter(td + 1, "slot_start_date_time"), row)]
    /\ UNCHANGED <<filter_probe, bucketvars, dbvars, callvars>>

\* the WHERE clause of fetch_xatu_client_connectivity on a row stamped t
ApplyNetworkDateFilter ==
    /\ ~filter_result.applied
    /\ filter_probe.module = "network_overview"
    /\ LET row == [event_date_time |-> filter_probe.t]
           td == filter_probe.target_date
       IN  filter_result' =
             [applied |-> TRUE,
              passes |-> Satisfies(
                  no_get_date_filter(td, "event_date_time"), row),
              passes_next |-> Satisfies(
                  no_get_date_filter(td + 1, "event_date_time"), row)]
    /\ UNCHANGED <<filter_probe, bucketvars, dbvars, callvars>>

DateNext == ApplyMempoolDateFilter \/ ApplyNetworkDateFilter

SpecDate == DateInit /\ [][DateNext]_vars

----------------------------------------------------------------------------
(* The other queries of mempool_visibility and the query of network_overview *)

\* the rows client.query_df returns for the query of fetch_tx_per_slot:
\* group key |-> total_txs
TxPerSlotResult(td, network) ==
    LET kept == AvailabilityKept(td, network)
    IN  [k \in {GroupKey(canonical[i]) : i \in kept} |->
            [total_txs |->
                Cardinality({i \in kept : GroupKey(canonical[i]) = k})]]

toStartOfHour(t) == Ts(t.d, t.ms - (t.ms % HourMs))

\* the rows client.query_df returns for the query of fetch_mempool_coverage:
\* <<hour, tx_type>> |-> counts
MempoolCoverageResult(td, network) ==
    LET kept == AvailabilityKept(td, network)
        seen == {e.hash : e \in
                   {x \in mempool :
                      /\ x.meta_network_name = network
                      /\ TsLE(DateMinusHour(td), x.event_date_time)
                      /\ TsLT(x.event_date_time, DatePlusDays(td, 1))}}
        key(i) == <<toStartOfHour(canonical[i].slot_start_date_time),
                    canonical[i].type>>
    IN  [k \in {key(i) : i \in kept} |->
            [total_txs |-> Cardinality({i \in kept : key(i) = k}),
             seen_in_mempool |->
                Cardinality({i \in kept :
                               key(i) = k /\ canonical[i].hash \in seen})]]

\* the rows client.query_df returns for the query of
\* fetch_xatu_client_connectivity, given the date filter of its text.  The
\* network names used hold no LIKE wildcard, so LIKE compares for equality.
XatuResult(date_filter, network) ==
    {[hour_bucket |-> toStartOfHour(r.event_date_time),
      peer_id |-> r.remote_peer_id_unique_key] :
        r \in {x \in libp2p_connected_local :
                 /\ x.meta_network_name = network
                 /\ Satisfies(date_filter, x)}}

----------------------------------------------------------------------------
(* The query texts *)

\* A query text is given by the statement it instantiates (template), the
\* table of its outer FROM, and the values interpolated into it.
Query(template, from, td, network, date_filter) ==
    [template |-> template, from |-> from, target_date |-> td,
     network |-> network, date_filter |-> date_filter]

fetch_tx_per_slot_query(td, network) ==
    Query("fetch_tx_per_slot", "canonical_beacon_block_execution_transaction",
          td, network, mv_get_date_filter(td, "slot_start_date_time"))

fetch_mempool_coverage_query(td, network) ==
    Query("fetch_mempool_coverage",
          "canonical_beacon_block_execution_transaction",
          td, network, mv_get_date_filter(td, "slot_start_date_time"))

fetch_sentry_coverage_query(td, network) ==
    Query("fetch_sentry_coverage", "mempool_transaction",
          td, network, mv_get_date_filter(td, "slot_start_date_time"))

fetch_mempool_availability_query(td, network) ==
    Query("fetch_mempool_availability",
          "canonical_beacon_block_execution_transaction",
          td, network, mv_get_date_filter(td, "slot_start_date_time"))

fetch_xatu_client_connectivity_query(td, network) ==
    Query("fetch_xatu_client_connectivity", "libp2p_connected_local",
          td, network, no_get_date_filter(td, "event_date_time"))

\* client.query_df(query) when it does not raise: the frame the database
\* holds for the text
ClientAnswer(query) ==
    CASE query.template = "fetch_tx_per_slot" ->
            TxPerSlotResult(query.target_date, query.network)
      [] query.template = "fetch_mempool_coverage" ->
            MempoolCoverageResult(query.target_date, query.network)
      [] query.template = "fetch_sentry_coverage" ->
            SentryCoverageResult(query.target_date, query.network)
      [] query.template = "fetch_mempool_availability" ->
            AvailabilityResult(query.target_date, query.network)
      [] query.template = "fetch_xatu_client_connectivity" ->
            XatuResult(query.date_filter, query.network)

----------------------------------------------------------------------------
(* SpecCalls: concurrent invocations of the builders *)

MempoolOps == {"fetch_tx_per_slot", "fetch_mempool_coverage",
               "fetch_sentry_coverage", "fetch_mempool_availability"}
\* the operations network_overview.py defines
NetworkOverviewOps == {"fetch_xatu_client_connectivity"}

\* target dates of the invocations: a day with rows in every table and a day
\* with none
CallDates == <<1, 3>>

\* output paths, as sequences of path components
Paths == << <<"data", "run1", "peers.parquet">>,
            <<"data", "run2", "peers.parquet">> >>
NoPath == <<>>

\* output_path.parent and its ancestors
Parents(path) == {SubSeq(path, 1, k) : k \in 1..(Len(path) - 1)}

Absent == [state |-> "absent", rows |-> {}]
Stale == [state |-> "stale", rows |-> {}]
Partial == [state |-> "partial", rows |-> {}]
Written(frame) == [state |-> "written", rows |-> frame]

FreshFs == [dirs |-> {}, files |-> [x \in DOMAIN Paths |-> Absent]]
PopulatedFs ==
    [dirs |-> UNION {Parents(Paths[x]) : x \in DOMAIN Paths},
     files |-> [x \in DOMAIN Paths |-> Stale]]

PathIndex(path) == CHOOSE x \in DOMAIN Paths : Paths[x] = path

\* the arguments an invocation may be given, in a fixed order
CallArgs ==
    [x \in 1..12 |->
        IF x <= 8
        THEN [op |-> <<"fetch_tx_per_slot", "fetch_mempool_coverage",
                       "fetch_sentry_coverage",
                       "fetch_mempool_availability">>[((x - 1) \div 2) + 1],
              target_date |-> CallDates[((x - 1) % 2) + 1],
              network |-> Network, output_path |-> NoPath]
        ELSE [op |-> "fetch_xatu_client_connectivity",
              target_date |-> CallDates[((x - 9) % 2) + 1],
              network |-> Network,
              output_path |-> Paths[((x - 9) \div 2) + 1]]]

NewCall(args) ==
    [op |-> args.op, target_date |-> args.target_date,
     network |-> args.network, output_path |-> args.output_path,
     pc |-> "start", issued |-> <<>>, df |-> {},
     ret |-> [kind |-> "none"], exc |-> "none", effects |-> {}]

SampleConnected ==
    {[event_date_time |-> Ts(1, 5000), remote_peer_id_unique_key |-> 11,
      meta_network_name |-> Network],
     [event_date_time |-> Ts(1, HourMs + 1), remote_peer_id_unique_key |-> 12,
      meta_network_name |-> Network],
     [event_date_time |-> Ts(2, 0), remote_peer_id_unique_key |-> 13,
      meta_network_name |-> Network]}

\* The invocations are interchangeable, so they are numbered in the order of
\* their arguments.
CallsInit ==
    /\ calls \in {[c \in 1..NumCalls |-> NewCall(CallArgs[f[c]])] :
                    f \in {g \in [1..NumCalls -> DOMAIN CallArgs] :
                             \A c \in 1..(NumCalls - 1) : g[c] <= g[c + 1]}}
    /\ fs \in {FreshFs, PopulatedFs}
    /\ libp2p_connected_local = SampleConnected
    /\ canonical = <<CanonicalRows(1, <<1>>)[1], CanonicalRows(1, <<1>>)[2]>>
    /\ mempool = MempoolRows({Ts(1, 11250)}, {"sentry-1"})
    /\ join_use_nulls = FALSE
    /\ target_date = 1
    /\ df = [fetched |-> FALSE, rows |-> <<>>]
    /\ BucketIdle /\ FilterIdle

\* a faulty return: date_filter is returned in place of query
ReturnedWithDateFilter(call, query) ==
    [call EXCEPT !.issued = Append(@, query), !.pc = "returned",
                 !.ret = [kind |-> "tuple", df |-> ClientAnswer(query),
                          query |-> query.date_filter]]

\* df = client.query_df(query); return df, query
Returned(call, query) ==
    [call EXCEPT !.issued = Append(@, query), !.pc = "returned",
                 !.ret = [kind |-> "tuple", df |-> ClientAnswer(query),
                          query |-> query]]

\* a faulty failure path: the request is issued a second time before the
\* exception leaves the builder
ClientRaisedAfterRetry(call, query) ==
    [call EXCEPT !.issued = Append(Append(@, query), query),
                 !.pc = "raised", !.exc = "client"]

\* client.query_df(query) raises: no handler, the exception leaves the builder
ClientRaised(call, query) ==
    [call EXCEPT !.issued = Append(@, query), !.pc = "raised",
                 !.exc = "client"]

\* the two outcomes of a builder of mempool_visibility once its text is built
QueryDf(c, query) ==
    /\ \/ calls' = [calls EXCEPT ![c] = Returned(calls[c], query)]
       \/ calls' = [calls EXCEPT ![c] = ClientRaised(calls[c], query)]
    /\ UNCHANGED <<fs, libp2p_connected_local, bucketvars, dbvars, filtervars>>

FetchTxPerSlot(c) ==
    /\ calls[c].op = "fetch_tx_per_slot" /\ calls[c].pc = "start"
    /\ QueryDf(c, fetch_tx_per_slot_query(calls[c].target_date,
                                          calls[c].network))

FetchMempoolCoverage(c) ==
    /\ calls[c].op = "fetch_mempool_coverage" /\ calls[c].pc = "start"
    /\ QueryDf(c, fetch_mempool_coverage_query(calls[c].target_date,
                                               calls[c].network))

CallFetchSentryCoverage(c) ==
    /\ calls[c].op = "fetch_sentry_coverage" /\ calls[c].pc = "start"
    /\ QueryDf(c, fetch_sentry_coverage_query(calls[c].target_date,
                                              calls[c].network))

CallFetchMempoolAvailability(c) ==
    /\ calls[c].op = "fetch_mempool_availability" /\ calls[c].pc = "start"
    /\ QueryDf(c, fetch_mempool_availability_query(calls[c].target_date,
                                                   calls[c].network))

\* fetch_xatu_client_connectivity: df = client.query_df(query)
XatuQuery(c) ==
    /\ calls[c].op = "fetch_xatu_client_connectivity"
    /\ calls[c].pc = "start"
    /\ LET query == fetch_xatu_client_connectivity_query(
                        calls[c].target_date, calls[c].network)
       IN  \/ calls' = [calls EXCEPT ![c].issued = Append(@, query),
                                     ![c].df = ClientAnswer(query),
                                     ![c].pc = "mkdir"]
           \/ calls' = [calls EXCEPT ![c] = ClientRaised(calls[c], query)]
    /\ UNCHANGED <<fs, libp2p_connected_local, bucketvars, dbvars, filtervars>>

\* output_path.parent.mkdir(parents=True, exist_ok=True)
mkdir(dirs, path) == dirs \cup Parents(path)

XatuMkdir(c) ==
    /\ calls[c].op = "fetch_xatu_client_connectivity"
    /\ calls[c].pc = "mkdir"
    /\ \/ /\ fs' = [fs EXCEPT !.dirs = mkdir(@, calls[c].output_path)]
          /\ calls' = [calls EXCEPT ![c].pc = "write",
                                    ![c].effects = @ \cup {"mkdir"}]
       \/ /\ calls' = [calls EXCEPT ![c].pc = "raised", ![c].exc = "mkdir"]
          /\ UNCHANGED fs
    /\ UNCHANGED <<libp2p_connected_local, bucketvars, dbvars, filtervars>>

\* a faulty write: an existing file is kept
to_parquet_keep_existing(files, path, frame) ==
    IF files[PathIndex(path)].state = "absent"
    THEN [files EXCEPT ![PathIndex(path)] = Written(frame)]
    ELSE files

\* df.to_parquet(output_path, index=False)
to_parquet(files, path, frame) ==
    [files EXCEPT ![PathIndex(path)] = Written(frame)]

\* df.to_parquet(...); return len(df).  A write that raises may have left
\* the file as it was or partly written.
XatuWrite(c) ==
    /\ calls[c].op = "fetch_xatu_client_connectivity"
    /\ calls[c].pc = "write"
    /\ \/ /\ fs' = [fs EXCEPT !.files = to_parquet(@, calls[c].output_path,
                                                   calls[c].df)]
          /\ calls' = [calls EXCEPT
                         ![c].pc = "returned",
                         ![c].effects = @ \cup {"write"},
                         ![c].ret = [kind |-> "int",
                                     value |-> Cardinality(calls[c].df)]]
       \/ /\ calls' = [calls EXCEPT ![c].pc = "raised", ![c].exc = "write"]
          /\ \/ UNCHANGED fs
             \/ fs' = [fs EXCEPT
                         !.files[PathIndex(calls[c].output_path)] = Partial]
    /\ UNCHANGED <<libp2p_connected_local, bucketvars, dbvars, filtervars>>

CallsNext ==
    \E c \in 1..NumCalls :
        \/ FetchTxPerSlot(c)
        \/ FetchMempoolCoverage(c)
        \/ CallFetchSentryCoverage(c)
        \/ CallFetchMempoolAvailability(c)
        \/ XatuQuery(c)
        \/ XatuMkdir(c)
        \/ XatuWrite(c)

SpecCalls == CallsInit /\ [][CallsNext]_vars

----------------------------------------------------------------------------
(* Properties of the histogram columns (SpecBuckets) *)

\* the bucket of the data model that holds the value x: index 0 is
\* [.., bounds[0]), index i is [bounds[i-1], bounds[i]), the last is
\* [bounds[last], ..)
InBucket(k, x) ==
    /\ (k = 0 => x < bounds_ms[1])
    /\ (k \in 1..13 => bounds_ms[k] <= x /\ x < bounds_ms[k + 1])
    /\ (k = 14 => x >= bounds_ms[14])

\* C3: bounds_ms holds 14 strictly ascending thresholds from 500 to
\* 3,600,000; hist_columns emits the names prefix_0 .. prefix_14, each once;
\* on every value v >= 0 exactly one bucket predicate is true, that of the
\* bucket InBucket describes; a value equal to a threshold falls in the
\* bucket above it and 750 falls in bucket 1.
C3_BucketsPartition ==
    /\ Len(bounds_ms) = 14 /\ bounds_ms[1] = 500 /\ bounds_ms[14] = 3600000
    /\ \A i \in 1..13 : bounds_ms[i] < bounds_ms[i + 1]
    /\ hist.applied =>
        /\ hist.names = [i \in 1..15 |-> <<probe.prefix, i - 1>>]
        /\ (probe.cond = "true" /\ ~probe.v.isNull /\ probe.v.v >= 0) =>
            /\ \E k \in 0..14 : /\ hist.hits = {<<probe.prefix, k>>}
                                /\ InBucket(k, probe.v.v)
            /\ \A j \in 1..14 : probe.v.v = bounds_ms[j]
                                  => hist.hits = {<<probe.prefix, j>>}
            /\ probe.v.v = 750 => hist.hits = {<<probe.prefix, 1>>}

\* a value equal to the first threshold was put in bucket 1
C3_Witness ==
    /\ hist.applied
    /\ probe.cond = "true"
    /\ probe.v = NotNull(bounds_ms[1])
    /\ hist.hits = {<<probe.prefix, 1>>}

\* C9: the histogram has the 12 buckets of the docstring, indexed 0..11,
\* bucket 11 holding every value >= 512 s, and AGE_HIST_LABELS has one label
\* per column.
C9_DocstringBuckets ==
    hist.applied =>
        /\ Len(hist.names) = 12
        /\ Len(AGE_HIST_LABELS) = Len(hist.names)
        /\ hist.names = [i \in 1..12 |-> <<probe.prefix, i - 1>>]
        /\ (probe.cond = "true" /\ ~probe.v.isNull /\ probe.v.v >= 0) =>
            \E k \in 0..11 :
                /\ hist.hits = {<<probe.prefix, k>>}
                /\ DocBuckets[k].hasLo => probe.v.v >= DocBuckets[k].lo
                /\ DocBuckets[k].hasHi => probe.v.v < DocBuckets[k].hi

----------------------------------------------------------------------------
(* Properties of fetch_mempool_availability (SpecAvailability) *)

RECURSIVE SumHist(_, _, _)
\* the sum of the counts of the first x columns of h named prefix_*
SumHist(h, prefix, x) ==
    IF x = 0 THEN 0
    ELSE (IF h[x].name[1] = prefix THEN h[x].count ELSE 0)
         + SumHist(h, prefix, x - 1)

\* the canonical rows of the target day, and those of one group
OfTargetDay == {i \in DOMAIN canonical :
                  canonical[i].slot_start_date_time.d = target_date}
InGroup(k) == {i \in OfTargetDay : GroupKey(canonical[i]) = k}

JoinedRow(i) == LeftJoin(canonical[i], first_seen(Network, target_date))

\* the number of columns named prefix_* whose countIf argument is true on
\* the joined row j
Buckets(j, prefix) ==
    Cardinality({x \in DOMAIN AvailabilityColumns :
                    /\ AvailabilityColumns[x].name[1] = prefix
                    /\ ColumnOnRow(AvailabilityColumns[x], j) = "true"})

\* C1: in every group the 15 age_hist counts sum to seen_before_slot and the
\* 15 delay_hist counts to seen_after_slot; a row failing the restriction is
\* in no bucket of that histogram and a row satisfying it in exactly one.
C1_HistogramSums ==
    df.fetched =>
        /\ \A k \in DOMAIN df.rows :
            LET r == df.rows[k]
            IN  /\ \A p \in Prefixes :
                     {r.hist[x].name : x \in
                        {y \in DOMAIN r.hist : r.hist[y].name[1] = p}}
                       = {<<p, n>> : n \in 0..14}
                /\ Len(r.hist) = 30
                /\ SumHist(r.hist, "age_hist", Len(r.hist)) = r.seen_before_slot
                /\ SumHist(r.hist, "delay_hist", Len(r.hist)) = r.seen_after_slot
        /\ \A j \in {JoinedRow(i) : i \in OfTargetDay} :
            /\ Buckets(j, "age_hist")
                 = (IF seen_before(j) = "true" THEN 1 ELSE 0)
            /\ Buckets(j, "delay_hist")
                 = (IF seen_after(j) = "true" THEN 1 ELSE 0)

\* a group with a row seen before its slot and a row seen after it
C1_Witness ==
    /\ df.fetched
    /\ \E k \in DOMAIN df.rows :
        /\ df.rows[k].seen_before_slot >= 1
        /\ df.rows[k].seen_after_slot >= 1

\* a canonical transaction is unseen when the mempool table has no row of its
\* hash within [target day - 1 day, target day + 2 days), or the earliest
\* such row is not after 2020-01-01
Unseen(i) ==
    LET evs == {e \in mempool :
                  /\ e.hash = canonical[i].hash
                  /\ e.meta_network_name = Network
                  /\ e.event_date_time.d \in (target_date - 1)..(target_date + 1)}
    IN  \/ evs = {}
        \/ \E e \in evs : TsLE(e.event_date_time, Sentinel)

\* C2: every canonical transaction of the target day is counted in the
\* total_txs of its group and in at most one of seen_before_slot and
\* seen_after_slot, an unseen one in neither; so seen_before_slot +
\* seen_after_slot <= total_txs, with equality exactly when the group has no
\* unseen transaction.
C2_Classification ==
    df.fetched =>
        /\ DOMAIN df.rows = {GroupKey(canonical[i]) : i \in OfTargetDay}
        /\ \A i \in OfTargetDay :
            LET sb == seen_before(JoinedRow(i))
                sa == seen_after(JoinedRow(i))
            IN  /\ ~(sb = "true" /\ sa = "true")
                /\ Unseen(i) <=> (sb # "true" /\ sa # "true")
        /\ \A k \in DOMAIN df.rows :
            LET r == df.rows[k]
                unseen == {i \in InGroup(k) : Unseen(i)}
            IN  /\ r.total_txs = Cardinality(InGroup(k))
                /\ r.seen_before_slot + r.seen_after_slot <= r.total_txs
                /\ r.seen_before_slot + r.seen_after_slot
                     = r.total_txs - Cardinality(unseen)
                /\ (r.seen_before_slot + r.seen_after_slot = r.total_txs)
                     <=> unseen = {}

\* a group of two transactions, one seen and one unseen
C2_Witness ==
    /\ df.fetched
    /\ \E k \in DOMAIN df.rows :
        /\ df.rows[k].total_txs = 2
        /\ df.rows[k].seen_before_slot + df.rows[k].seen_after_slot = 1

----------------------------------------------------------------------------
(* Properties of fetch_sentry_coverage (SpecSentry) *)

\* the distinct canonical hashes of the target day
DayHashes == {canonical[i].hash : i \in OfTargetDay}

\* the hashes of DayHashes that sentry s reported within
\* [target day - 1 hour, target day + 1 day)
SeenBy(s) ==
    {e.hash : e \in
        {x \in mempool :
            /\ x.meta_client_name = s
            /\ x.meta_network_name = Network
            /\ x.hash \in DayHashes
            /\ \/ x.event_date_time.d = target_date
               \/ /\ x.event_date_time.d = target_date - 1
                  /\ x.event_date_time.ms >= DayMs - HourMs}}

\* C6: every sentry row was divided by the same, non-zero denominator, the
\* number of distinct canonical hashes of the day; its txs_seen is the
\* number of those hashes the sentry reported in the window, at most the
\* denominator, and its coverage_pct lies in [0, 100].
C6_SentryCoverage ==
    df.fetched =>
        \A s \in DOMAIN df.rows :
            LET r == df.rows[s]
            IN  /\ r.denominator # 0
                /\ r.denominator = Cardinality(DayHashes)
                /\ r.txs_seen = Cardinality(SeenBy(s))
                /\ r.txs_seen >= 1
                /\ r.txs_seen <= r.denominator
                /\ r.coverage_pct >= 0
                /\ r.coverage_pct <= 10000

\* two sentries that each saw one of the day's two canonical hashes
C6_Witness ==
    /\ df.fetched
    /\ Cardinality(DOMAIN df.rows) = 2
    /\ \A s \in DOMAIN df.rows :
        /\ df.rows[s].denominator = 2
        /\ df.rows[s].coverage_pct = 5000

----------------------------------------------------------------------------
(* Properties of the date filters (SpecDate) *)

\* C4: in both modules a row passes the date filter only if its timestamp t
\* satisfies start-of-day <= t < start-of-day + 1 day, so a row stamped
\* exactly at start-of-day + 1 day is excluded and no row passes the filters
\* of two consecutive target dates.
C4_HalfOpenDay ==
    filter_result.applied =>
        /\ filter_result.passes
             <=> filter_probe.t.d = filter_probe.target_date
        /\ ~(filter_result.passes /\ filter_result.passes_next)

----------------------------------------------------------------------------
(* Properties of the invocations (SpecCalls) *)

IsXatu(c) == calls[c].op \in NetworkOverviewOps
AllCalls == DOMAIN calls

\* no other invocation writes, or has written, the output path of c
SoleWriter(c) ==
    \A o \in AllCalls \ {c} :
        (IsXatu(o) /\ calls[o].output_path = calls[c].output_path)
            => (calls[o].pc \in {"start", "mkdir"}
                \/ (calls[o].pc = "raised" /\ calls[o].exc # "write"))

FileAt(path) == fs.files[PathIndex(path)]

\* C5, as amended: a builder of mempool_visibility returns the pair (frame,
\* query text), the text being exactly the one text it passed to the client;
\* fetch_xatu_client_connectivity returns the row count of its frame and no
\* query text.
C5_MempoolBuildersReturnQuery ==
    \A c \in AllCalls :
        calls[c].pc = "returned" =>
            IF calls[c].op \in MempoolOps
            THEN /\ calls[c].ret.kind = "tuple"
                 /\ Len(calls[c].issued) = 1
                 /\ calls[c].ret.query = calls[c].issued[1]
                 /\ calls[c].ret.df = ClientAnswer(calls[c].issued[1])
            ELSE /\ calls[c].ret.kind = "int"
                 /\ DOMAIN calls[c].ret = {"kind", "value"}
                 /\ calls[c].ret.value = Cardinality(calls[c].df)

\* a builder of mempool_visibility and fetch_xatu_client_connectivity have
\* both returned
C5_Witness ==
    /\ \E c \in AllCalls : calls[c].pc = "returned" /\ calls[c].op \in MempoolOps
    /\ \E c \in AllCalls : calls[c].pc = "returned" /\ IsXatu(c)

\* C5 as stated: every builder, fetch_xatu_client_connectivity included,
\* returns the query text it passed to the client.
C5_EveryBuilderReturnsQuery ==
    \A c \in AllCalls :
        calls[c].pc = "returned" =>
            /\ calls[c].ret.kind = "tuple"
            /\ calls[c].ret.query = calls[c].issued[1]

\* C7: a failure of the client reaches the caller as the client's failure,
\* after one request and with nothing returned; fetch_xatu_client_connectivity
\* has then created no directory and written no file, and while no invocation
\* has got past its query the file system is as it was; a failed mkdir or
\* write reaches the caller too, instead of a row count.
C7_FailuresPropagate ==
    /\ \A c \in AllCalls :
        /\ Len(calls[c].issued) <= 1
        /\ calls[c].pc = "raised" <=> calls[c].exc # "none"
        /\ calls[c].pc = "raised" => calls[c].ret = [kind |-> "none"]
        /\ calls[c].exc = "client" =>
            /\ Len(calls[c].issued) = 1
            /\ calls[c].effects = {}
        /\ calls[c].exc = "mkdir" => calls[c].effects = {}
        /\ calls[c].exc = "write" => calls[c].effects = {"mkdir"}
    /\ (\A c \in AllCalls :
          calls[c].pc \in {"start", "mkdir"}
          \/ (calls[c].pc = "raised" /\ calls[c].exc \in {"client", "mkdir"})
          \/ ~IsXatu(c))
        => fs \in {FreshFs, PopulatedFs}

\* the client failed for one invocation of fetch_xatu_client_connectivity and
\* the write failed for another
C7_Witness ==
    /\ \E c \in AllCalls : IsXatu(c) /\ calls[c].exc = "client"
    /\ \E c \in AllCalls : IsXatu(c) /\ calls[c].exc = "write"

\* a row of the table for the network and within the target day
InputDataExists(c) ==
    \E r \in libp2p_connected_local :
        /\ r.meta_network_name = calls[c].network
        /\ r.event_date_time.d = calls[c].target_date

C8_Order ==
    \A c \in AllCalls :
        IsXatu(c) =>
            /\ calls[c].pc = "start" =>
                 calls[c].issued = <<>> /\ calls[c].effects = {}
            /\ calls[c].pc = "mkdir" =>
                 Len(calls[c].issued) = 1 /\ calls[c].effects = {}
            /\ calls[c].pc = "write" =>
                 /\ Len(calls[c].issued) = 1
                 /\ calls[c].effects = {"mkdir"}
                 /\ Parents(calls[c].output_path) \subseteq fs.dirs
            /\ calls[c].pc = "returned" =>
                 /\ Len(calls[c].issued) = 1
                 /\ calls[c].effects = {"mkdir", "write"}
                 /\ Parents(calls[c].output_path) \subseteq fs.dirs
                 /\ FileAt(calls[c].output_path).state \in {"written", "partial"}
                 /\ calls[c].ret = [kind |-> "int",
                                    value |-> Cardinality(calls[c].df)]
                 /\ SoleWriter(c) =>
                      /\ FileAt(calls[c].output_path) = Written(calls[c].df)
                      /\ calls[c].ret.value
                           = Cardinality(FileAt(calls[c].output_path).rows)
                 /\ InputDataExists(c) => calls[c].ret.value > 0

C10_Independent ==
    /\ \A c \in AllCalls :
        /\ Len(calls[c].issued) <= 1
        /\ calls[c].pc \in {"returned", "mkdir", "write"}
             => Len(calls[c].issued) = 1
        /\ Len(calls[c].issued) = 1 =>
            LET q == calls[c].issued[1]
            IN  /\ q.template = calls[c].op
                /\ q.target_date = calls[c].target_date
                /\ q.network = calls[c].network
                /\ q.date_filter.lo = DateTimeOf(calls[c].target_date)
                /\ q.date_filter.hi = DatePlusDays(calls[c].target_date, 1)
                /\ calls[c].pc = "returned" =>
                     IF IsXatu(c)
                     THEN /\ calls[c].ret.value = Cardinality(ClientAnswer(q))
                          /\ SoleWriter(c) =>
                               FileAt(calls[c].output_path)
                                 = Written(ClientAnswer(q))
                     ELSE calls[c].ret = [kind |-> "tuple",
                                          df |-> ClientAnswer(q), query |-> q]
    /\ \A c \in AllCalls, o \in AllCalls :
        (/\ calls[c].op = calls[o].op
         /\ calls[c].target_date = calls[o].target_date
         /\ calls[c].network = calls[o].network)
            => /\ (Len(calls[c].issued) = 1 /\ Len(calls[o].issued) = 1)
                    => calls[c].issued = calls[o].issued
               /\ (calls[c].pc = "returned" /\ calls[o].pc = "returned")
                    => calls[c].ret = calls[o].ret

\* two invocations with different target dates and output paths have both
\* returned, each leaving its own frame in its own file
C10_Witness ==
    \E c \in AllCalls, o \in AllCalls :
        /\ IsXatu(c) /\ IsXatu(o)
        /\ calls[c].target_date # calls[o].target_date
        /\ calls[c].output_path # calls[o].output_path
        /\ calls[c].pc = "returned" /\ calls[o].pc = "returned"
        /\ FileAt(calls[c].output_path) = Written(calls[c].df)
        /\ FileAt(calls[o].output_path) = Written(calls[o].df)
        /\ calls[c].df # calls[o].df

====
